---------------------------- MODULE Spec2Model ----------------------------
(***************************************************************************)
(* A model of ractor's BytesConvertable codecs (src/serialization.rs, the  *)
(* default `impls` module, i.e. without the `blanket_serde` feature).      *)
(*                                                                         *)
(* Representation of Rust values:                                          *)
(*   - a byte sequence (Vec<u8>) is a sequence of integers in 0..255;      *)
(*   - u8, i8, u16, i16 values are the integers they denote;               *)
(*   - values of the wider numeric types do not fit TLC's 32-bit integers, *)
(*     so a value n of i32..i128, u32..u128 is the little-endian sequence  *)
(*     of its 16-bit limbs, n = SUM limb[k] * 65536^(k-1); every           *)
(*     limb lies in 0..65535 except the top limb of a signed type, which   *)
(*     lies in -32768..32767 (so -1i32 is <<65535, -1>>);                  *)
(*   - f32 and f64 values are their IEEE-754 bit patterns (to_bits), held  *)
(*     like u32 and u64;                                                   *)
(*   - bool is BOOLEAN, char is its Unicode scalar value, () is "()";      *)
(*   - a String is the sequence of the scalar values of its characters;    *)
(*   - a Vec<E> is a sequence of E values.                                 *)
(* A call of from_bytes either returns a value, Ok(v), or panics, Panic.   *)
(***************************************************************************)
EXTENDS Integers, Sequences, FiniteSets

VARIABLES ty, vec, pc, src, wire, extra, res

vars == <<ty, vec, pc, src, wire, extra, res>>

\* ------------------------------------------------------------------ bounds

\* Longest seed of a raw (received) byte sequence; a raw input repeats its seed.
MaxSeedLen == 3
\* Most bytes a raw input holds beyond two elements' worth, and most trailing
\* bytes the transport appends to an encoded value.
MaxExtra == 2
\* Most elements of a vector that is encoded.
MaxVecLen == 2
\* Most characters of a String that is encoded.
MaxStrLen == 2
\* Most bytes of a raw input decoded as a String.
MaxStrBytes == 4

\* ------------------------------------------------------------------- types

SignedTypes == {"i8", "i16", "i32", "i64", "i128"}
UnsignedTypes == {"u8", "u16", "u32", "u64", "u128"}
FloatTypes == {"f32", "f64"}
NumericTypes == SignedTypes \cup UnsignedTypes \cup FloatTypes
ScalarTypes == NumericTypes \cup {"()", "bool", "char", "String"}
ElemTypes == NumericTypes \cup {"bool", "char"}

\* std::mem::size_of::<$ty>()
size_of(t) ==
  CASE t \in {"i8", "u8", "bool"} -> 1
    [] t \in {"i16", "u16"} -> 2
    [] t \in {"i32", "u32", "f32", "char"} -> 4
    [] t \in {"i64", "u64", "f64"} -> 8
    [] t \in {"i128", "u128"} -> 16
    [] t = "()" -> 0

\* ----------------------------------------------------------------- results

\* What a call of from_bytes does: it returns v, or it panics.
Ok(v) == [tag |-> "ok", val |-> v]
Panic == [tag |-> "panic"]
\* No call yet (res), no value encoded (src).
None == [tag |-> "none"]
Some(v) == [tag |-> "some", val |-> v]

\* ---------------------------------------------------------- sequence helpers

Reverse(s) == [i \in 1..Len(s) |-> s[Len(s) + 1 - i]]

RECURSIVE Flatten(_)
Flatten(ss) == IF ss = <<>> THEN <<>> ELSE Head(ss) \o Flatten(Tail(ss))

Repeat(b, n) == [i \in 1..n |-> b]

Cycle(seed, n) == [i \in 1..n |-> seed[((i - 1) % Len(seed)) + 1]]

RECURSIVE SeqsUpTo(_, _)
SeqsUpTo(S, n) ==
  IF n = 0 THEN {<<>>}
  ELSE LET shorter == SeqsUpTo(S, n - 1)
       IN  shorter \cup {Append(s, x) : s \in {t \in shorter : Len(t) = n - 1}, x \in S}

\* ------------------------------------------------- fixed-width numeric codec

\* The limbs of a numeric value (see the representation above).
Limbs(t, v) == IF size_of(t) <= 2 THEN <<v>> ELSE v
Unlimbs(t, l) == IF size_of(t) <= 2 THEN l[1] ELSE l
LimbBytes(t) == IF size_of(t) = 1 THEN 1 ELSE 2

\* The value's bytes in memory order on a little-endian host (to_ne_bytes):
\* least significant byte first, two's complement.
to_le_bytes(t, v) ==
  LET l == Limbs(t, v)
  IN  IF LimbBytes(t) = 1 THEN <<l[1] % 256>>
      ELSE Flatten([k \in 1..Len(l) |-> <<l[k] % 256, (l[k] \div 256) % 256>>])

\* Faulty variant of to_be_bytes: the bytes in the host's (little-endian)
\* order, as to_ne_bytes gives them.
to_be_bytes_native(t, v) == to_le_bytes(t, v)

\* $ty::to_be_bytes(self): the byte-swapped value's memory bytes.
to_be_bytes(t, v) == Reverse(to_le_bytes(t, v))

\* Faulty variant of LimbOf: the sign of the top limb is lost.
LimbOf_unsigned(lo, hi, signed) == lo + 256 * hi

\* The limb a little-endian byte pair denotes: the top limb of a signed type
\* carries the sign.
LimbOf(lo, hi, signed) ==
  LET u == lo + 256 * hi
  IN  IF signed /\ u >= 32768 THEN u - 65536 ELSE u

from_le_bytes(t, data) ==
  IF LimbBytes(t) = 1
  THEN IF t \in SignedTypes /\ data[1] >= 128 THEN data[1] - 256 ELSE data[1]
  ELSE LET n == size_of(t) \div 2
       IN  Unlimbs(t, [k \in 1..n |->
                         LimbOf(data[2 * k - 1], data[2 * k],
                                t \in SignedTypes /\ k = n)])

\* $ty::from_be_bytes(data), data of exactly size_of::<$ty>() bytes.
from_be_bytes(t, data) == from_le_bytes(t, Reverse(data))

\* implement_numeric: into_bytes
numeric_into_bytes(t, v) == to_be_bytes(t, v)

\* Faulty variant of numeric_from_bytes: a short input is zero-filled.
numeric_from_bytes_zero_fill(t, bytes) ==
  Ok(from_be_bytes(t, SubSeq(bytes \o Repeat(0, size_of(t)), 1, size_of(t))))

\* Faulty variant of numeric_from_bytes: the last size_of bytes are read.
numeric_from_bytes_suffix(t, bytes) ==
  IF Len(bytes) < size_of(t) THEN Panic
  ELSE Ok(from_be_bytes(t, SubSeq(bytes, Len(bytes) - size_of(t) + 1, Len(bytes))))

\* implement_numeric: from_bytes; &bytes[..size_of] panics on a short input.
numeric_from_bytes(t, bytes) ==
  IF Len(bytes) < size_of(t) THEN Panic
  ELSE Ok(from_be_bytes(t, SubSeq(bytes, 1, size_of(t))))

\* ------------------------------------------------------ unit, bool and char

\* impl BytesConvertable for ()
unit_into_bytes(v) == <<>>

unit_from_bytes(bytes) == Ok("()")

\* impl BytesConvertable for bool
bool_into_bytes(v) == IF v THEN <<1>> ELSE <<0>>

\* Faulty variant of bool_from_bytes: every non-zero byte is true.
bool_from_bytes_nonzero(bytes) ==
  IF Len(bytes) = 0 THEN Panic ELSE Ok(bytes[1] # 0)

\* bytes[0] panics on an empty input.
bool_from_bytes(bytes) == IF Len(bytes) = 0 THEN Panic ELSE Ok(bytes[1] = 1)

\* `self as u32`: the scalar value of a char as a u32 (two limbs).
char_as_u32(c) == <<c % 65536, c \div 65536>>

\* Faulty variant of from_u32_is_some: surrogates are let through.
from_u32_is_some_range_only(u) == u[2] <= 16

\* char::from_u32(u) is Some(_): u <= 0x10FFFF and u is no surrogate.
from_u32_is_some(u) ==
  /\ u[2] <= 16
  /\ ~(u[2] = 0 /\ u[1] >= 55296 /\ u[1] <= 57343)

\* The char inside char::from_u32(u), when it is Some(_).
from_u32(u) == u[2] * 65536 + u[1]

\* impl BytesConvertable for char
char_into_bytes(c) == numeric_into_bytes("u32", char_as_u32(c))

\* u32::from_bytes may panic (short input); unwrap() panics on None.
char_from_bytes(bytes) ==
  LET u == numeric_from_bytes("u32", bytes)
  IN  IF u.tag = "panic" THEN Panic
      ELSE IF from_u32_is_some(u.val) THEN Ok(from_u32(u.val))
      ELSE Panic

\* ------------------------------------------------------------------ String

\* The UTF-8 form of one char (the bytes a String holds for it).
encode_utf8(c) ==
  IF c < 128 THEN <<c>>
  ELSE IF c < 2048 THEN <<192 + (c \div 64), 128 + (c % 64)>>
  ELSE IF c < 65536
    THEN <<224 + (c \div 4096), 128 + ((c \div 64) % 64), 128 + (c % 64)>>
  ELSE <<240 + (c \div 262144), 128 + ((c \div 4096) % 64),
         128 + ((c \div 64) % 64), 128 + (c % 64)>>

\* impl BytesConvertable for String: into_bytes is the String's own buffer.
String_into_bytes(s) == Flatten([i \in 1..Len(s) |-> encode_utf8(s[i])])

\* UTF8_CHAR_WIDTH of core::str::validations: the length a first byte
\* announces, 0 for a byte that starts no character.
utf8_char_width(b) ==
  IF b < 128 THEN 1
  ELSE IF b >= 194 /\ b <= 223 THEN 2
  ELSE IF b >= 224 /\ b <= 239 THEN 3
  ELSE IF b >= 240 /\ b <= 244 THEN 4
  ELSE 0

IsCont(b) == b >= 128 /\ b <= 191

\* Faulty variant of SecondOk: any continuation byte is allowed, so overlong
\* forms, surrogates and values above U+10FFFF pass.
SecondOk_any_continuation(first, second) == IsCont(second)

\* Whether the second byte is one the first byte allows (run_utf8_validation:
\* no overlong form, no surrogate, nothing above U+10FFFF).
SecondOk(first, second) ==
  CASE first = 224 -> second >= 160 /\ second <= 191
    [] first = 237 -> second >= 128 /\ second <= 159
    [] first = 240 -> second >= 144 /\ second <= 191
    [] first = 244 -> second >= 128 /\ second <= 143
    [] OTHER -> IsCont(second)

\* The length of the well-formed character at the head of a non-empty b,
\* 0 when b starts with none.
next_char_len(b) ==
  LET w == utf8_char_width(b[1])
  IN  IF w = 0 \/ Len(b) < w THEN 0
      ELSE IF w = 1 THEN 1
      ELSE IF ~SecondOk(b[1], b[2]) THEN 0
      ELSE IF \A i \in 3..w : IsCont(b[i]) THEN w
      ELSE 0

\* The char a well-formed UTF-8 character of w bytes denotes.
decode_char(b, w) ==
  CASE w = 1 -> b[1]
    [] w = 2 -> (b[1] - 192) * 64 + (b[2] - 128)
    [] w = 3 -> (b[1] - 224) * 4096 + (b[2] - 128) * 64 + (b[3] - 128)
    [] w = 4 -> (b[1] - 240) * 262144 + (b[2] - 128) * 4096
                  + (b[3] - 128) * 64 + (b[4] - 128)

\* String::from_utf8(bytes): Ok(the text) when all of bytes is valid UTF-8,
\* Panic standing for the Err(_) that unwrap() turns into a panic.
RECURSIVE from_utf8(_)
from_utf8(b) ==
  IF b = <<>> THEN Ok(<<>>)
  ELSE LET w == next_char_len(b)
       IN  IF w = 0 THEN Panic
           ELSE LET rest == from_utf8(SubSeq(b, w + 1, Len(b)))
                IN  IF rest.tag = "panic" THEN Panic
                    ELSE Ok(<<decode_char(b, w)>> \o rest.val)

String_from_bytes(bytes) == from_utf8(bytes)

\* ----------------------------------------------------------------- vectors

\* Faulty variant of vec_numeric_into_bytes: the windows are filled from the
\* last element to the first.
vec_numeric_into_bytes_reversed(t, vs) ==
  LET W == size_of(t)
  IN  [i \in 1..(Len(vs) * W) |->
         to_be_bytes(t, vs[Len(vs) - ((i - 1) \div W)])[((i - 1) % W) + 1]]

\* implement_vectorized_numeric: into_bytes; element `offset` fills the
\* window result[offset * size_of .. offset * size_of + size_of].
vec_numeric_into_bytes(t, vs) ==
  LET W == size_of(t)
  IN  [i \in 1..(Len(vs) * W) |->
         to_be_bytes(t, vs[((i - 1) \div W) + 1])[((i - 1) % W) + 1]]

\* Faulty variant of num_el: the last whole window is not counted.
num_el_drop_last(t, bytes) ==
  IF Len(bytes) \div size_of(t) = 0 THEN 0 ELSE (Len(bytes) \div size_of(t)) - 1

\* let num_el = bytes.len() / size_of::<$ty>()
num_el(t, bytes) == Len(bytes) \div size_of(t)

\* Faulty variant of vec_numeric_from_bytes: window `offset` starts at byte
\* offset, not at byte offset * size_of.
vec_numeric_from_bytes_overlapping(t, bytes) ==
  LET W == size_of(t)
  IN  Ok([k \in 1..(Len(bytes) \div W) |->
            from_be_bytes(t, SubSeq(bytes, k, k + W - 1))])

\* implement_vectorized_numeric: from_bytes
vec_numeric_from_bytes(t, bytes) ==
  LET W == size_of(t)
  IN  Ok([k \in 1..num_el(t, bytes) |->
            from_be_bytes(t, SubSeq(bytes, (k - 1) * W + 1, k * W))])

\* impl BytesConvertable for Vec<u8>
vec_u8_into_bytes(vs) == vs

vec_u8_from_bytes(bytes) == Ok(bytes)

\* impl BytesConvertable for Vec<bool>
vec_bool_into_bytes(vs) == [i \in 1..Len(vs) |-> IF vs[i] THEN 1 ELSE 0]

vec_bool_from_bytes(bytes) == Ok([i \in 1..Len(bytes) |-> bytes[i] = 1])

\* impl BytesConvertable for Vec<char>
vec_char_into_bytes(vs) ==
  vec_numeric_into_bytes("u32", [i \in 1..Len(vs) |-> char_as_u32(vs[i])])

\* The first element that is no scalar value makes unwrap() panic.
vec_char_from_bytes(bytes) ==
  LET u32s == vec_numeric_from_bytes("u32", bytes).val
  IN  IF \A i \in 1..Len(u32s) : from_u32_is_some(u32s[i])
      THEN Ok([i \in 1..Len(u32s) |-> from_u32(u32s[i])])
      ELSE Panic

\* ---------------------------------------------------------- trait dispatch

\* <T as BytesConvertable>::into_bytes(v), T = Vec<t> when isvec, else t.
into_bytes(isvec, t, v) ==
  IF isvec
  THEN CASE t = "u8" -> vec_u8_into_bytes(v)
         [] t = "bool" -> vec_bool_into_bytes(v)
         [] t = "char" -> vec_char_into_bytes(v)
         [] OTHER -> vec_numeric_into_bytes(t, v)
  ELSE CASE t = "()" -> unit_into_bytes(v)
         [] t = "bool" -> bool_into_bytes(v)
         [] t = "char" -> char_into_bytes(v)
         [] t = "String" -> String_into_bytes(v)
         [] OTHER -> numeric_into_bytes(t, v)

\* <T as BytesConvertable>::from_bytes(bytes)
from_bytes(isvec, t, bytes) ==
  IF isvec
  THEN CASE t = "u8" -> vec_u8_from_bytes(bytes)
         [] t = "bool" -> vec_bool_from_bytes(bytes)
         [] t = "char" -> vec_char_from_bytes(bytes)
         [] OTHER -> vec_numeric_from_bytes(t, bytes)
  ELSE CASE t = "()" -> unit_from_bytes(bytes)
         [] t = "bool" -> bool_from_bytes(bytes)
         [] t = "char" -> char_from_bytes(bytes)
         [] t = "String" -> String_from_bytes(bytes)
         [] OTHER -> numeric_from_bytes(t, bytes)

\* ------------------------------------------------------------------ inputs

NumBytes == {0, 1, 128, 255}
BoolBytes == {0, 1, 2, 255}
\* 0x00, 0x10, 0x11, 0xD8, 0xDF, 0xE0
CharBytes == {0, 16, 17, 216, 223, 224}
\* 'h', 'i', 0x80, 0xA0, 0xC0, 0xC2, 0xE0, 0xED, 0xF0, 0xF4
Utf8Bytes == {104, 105, 128, 160, 192, 194, 224, 237, 240, 244}

Alphabet(t) ==
  CASE t = "bool" -> BoolBytes
    [] t = "char" -> CharBytes
    [] OTHER -> NumBytes

\* The byte sequences a call of from_bytes is given by a peer that did not
\* encode a value of the type: a seed repeated up to a length that covers
\* the empty input, short inputs, whole elements and trailing bytes.
RawInputs(isvec, t) ==
  IF t = "String" THEN SeqsUpTo(Utf8Bytes, MaxStrBytes)
  ELSE LET maxlen == (IF isvec THEN 2 * size_of(t) ELSE size_of(t)) + MaxExtra
       IN  {Cycle(seed, n) : seed \in SeqsUpTo(Alphabet(t), MaxSeedLen) \ {<<>>},
                             n \in 0..maxlen}

\* The bytes that may follow an encoded value in the input of from_bytes.
Extras == {Repeat(b, n) : b \in {0, 255}, n \in 0..MaxExtra}

LowLimbs == {0, 1, 300, 32768, 65535}
TopLimbs(t) == IF t \in SignedTypes THEN {-32768, -1, 0, 1, 32767} ELSE LowLimbs

\* Values of a wide numeric type: low limb from A, top limb from C, the limbs
\* between them all equal and from B.
WideValues(t, A, B, C) ==
  LET n == size_of(t) \div 2
  IN  {[k \in 1..n |-> IF k = n THEN c ELSE IF k = 1 THEN a ELSE b] :
         a \in A, b \in B, c \in C}

\* 'A', 'h', 'i', U+007F, U+0080, U+07FF, U+0800, U+D7FF, U+E000, U+FFFF,
\* U+10000, U+10FFFF
CharValues == {65, 104, 105, 127, 128, 2047, 2048, 55295, 57344, 65535,
               65536, 1114111}

ScalarValues(t) ==
  CASE t = "u8" -> 0..255
    [] t = "i8" -> -128..127
    [] t = "u16" -> {0, 1, 255, 256, 300, 32767, 32768, 65535}
    [] t = "i16" -> {-32768, -300, -256, -1, 0, 1, 255, 256, 300, 32767}
    [] t = "()" -> {"()"}
    [] t = "bool" -> BOOLEAN
    [] t = "char" -> CharValues
    [] t = "String" -> SeqsUpTo({104, 105, 233, 8364, 55295, 65536, 1114111}, MaxStrLen)
    [] OTHER -> WideValues(t, LowLimbs, LowLimbs, TopLimbs(t))

ElemValues(t) ==
  CASE t = "u8" -> {0, 1, 128, 255}
    [] t = "i8" -> {-128, -1, 1, 127}
    [] t = "u16" -> {0, 1, 300, 65535}
    [] t = "i16" -> {-32768, -1, 1, 300}
    [] t = "bool" -> BOOLEAN
    [] t = "char" -> {65, 55295, 57344, 1114111}
    [] OTHER -> WideValues(t, {1, 65535}, {0, 65535},
                           IF t \in SignedTypes THEN {-32768, 32767} ELSE {0, 65535})

Values(isvec, t) ==
  IF isvec THEN SeqsUpTo(ElemValues(t), MaxVecLen) ELSE ScalarValues(t)

\* ----------------------------------------------------------- state machine
\* One use of the trait: a value of type ty (Vec<ty> when vec) is encoded and
\* the bytes, possibly followed by more, are decoded; or received bytes are
\* decoded.  pc: "value" -> "encoded" -> "decoded", or "received" -> "decoded".

Init ==
  /\ vec \in BOOLEAN
  /\ ty \in (IF vec THEN ElemTypes ELSE ScalarTypes)
  /\ extra = <<>>
  /\ res = None
  /\ \/ /\ pc = "value"
        /\ src \in {Some(v) : v \in Values(vec, ty)}
        /\ wire = <<>>
     \/ /\ pc = "received"
        /\ src = None
        /\ wire \in RawInputs(vec, ty)

\* let bytes = value.into_bytes();
IntoBytes ==
  /\ pc = "value"
  /\ wire' = into_bytes(vec, ty, src.val)
  /\ pc' = "encoded"
  /\ UNCHANGED <<ty, vec, src, extra, res>>

\* let back = <T as BytesConvertable>::from_bytes(bytes ++ extra);
FromBytes ==
  /\ pc \in {"encoded", "received"}
  /\ \E e \in (IF pc = "encoded" THEN Extras ELSE {<<>>}) :
       /\ extra' = e
       /\ res' = from_bytes(vec, ty, wire \o e)
  /\ pc' = "decoded"
  /\ UNCHANGED <<ty, vec, src, wire>>

Next == IntoBytes \/ FromBytes

Spec == Init /\ [][Next]_vars

\* The bytes the last call of from_bytes was given.
Input == wire \o extra

\* ------------------------------------------------------- claims: vocabulary

Decoded == pc = "decoded"
Encoded == pc \in {"encoded", "decoded"} /\ src.tag = "some"

\* Byte k (0 the least significant) of the two's-complement or IEEE-754 bit
\* pattern of a numeric value.
BitByte(t, v, k) ==
  LET limb == IF size_of(t) <= 2 THEN v ELSE v[(k \div 2) + 1]
      part == IF size_of(t) <= 2 THEN k ELSE k % 2
  IN  IF part = 0 THEN limb % 256 ELSE (limb \div 256) % 256

\* v is a value of the numeric type t, in the representation of this module.
InRange(t, v) ==
  CASE t = "u8" -> v \in 0..255
    [] t = "i8" -> v \in -128..127
    [] t = "u16" -> v \in 0..65535
    [] t = "i16" -> v \in -32768..32767
    [] OTHER ->
         /\ Len(v) = size_of(t) \div 2
         /\ \A k \in 1..Len(v) :
              IF t \in SignedTypes /\ k = Len(v) THEN v[k] \in -32768..32767
              ELSE v[k] \in 0..65535

\* v is the value of t whose big-endian form is the w bytes of b from `from`.
IsBigEndianOf(t, v, b, from) ==
  /\ InRange(t, v)
  /\ \A i \in 0..(size_of(t) - 1) : b[from + i] = BitByte(t, v, size_of(t) - 1 - i)

\* The u32 that four bytes from `from` spell is a Unicode scalar value:
\* at most 0x10FFFF and outside 0xD800..0xDFFF.
LegalScalarAt(b, from) ==
  /\ b[from] = 0
  /\ b[from + 1] <= 16
  /\ LET u == b[from + 1] * 65536 + b[from + 2] * 256 + b[from + 3]
     IN  u < 55296 \/ u > 57343

ScalarAt(b, from) == b[from + 1] * 65536 + b[from + 2] * 256 + b[from + 3]

\* The well-formed UTF-8 byte sequences of the Unicode Standard, table 3-7.
Trail == 128..191
WellFormedTable ==
  { <<0..127>>,
    <<194..223, Trail>>,
    <<{224}, 160..191, Trail>>,
    <<225..236, Trail, Trail>>,
    <<{237}, 128..159, Trail>>,
    <<238..239, Trail, Trail>>,
    <<{240}, 144..191, Trail, Trail>>,
    <<241..243, Trail, Trail, Trail>>,
    <<{244}, 128..143, Trail, Trail>> }

RECURSIVE WellFormedUtf8(_)
WellFormedUtf8(b) ==
  \/ b = <<>>
  \/ \E row \in WellFormedTable :
       /\ Len(b) >= Len(row)
       /\ \A i \in 1..Len(row) : b[i] \in row[i]
       /\ WellFormedUtf8(SubSeq(b, Len(row) + 1, Len(b)))

Utf8Len(c) == IF c < 128 THEN 1 ELSE IF c < 2048 THEN 2 ELSE IF c < 65536 THEN 3 ELSE 4

RECURSIVE SumUtf8Len(_)
SumUtf8Len(s) == IF s = <<>> THEN 0 ELSE Utf8Len(Head(s)) + SumUtf8Len(Tail(s))

\* The number of input bytes that belong to the decoded vector or text.
Consumed ==
  IF vec THEN Len(res.val) * size_of(ty) ELSE Len(String_into_bytes(res.val))

\* ------------------------------------------------------------------ claims

\* C1: for every scalar type other than String and every value v of it,
\* from_bytes(into_bytes(v)) returns, and returns v.
C1_ScalarRoundTrip ==
  (Decoded /\ ~vec /\ ty # "String" /\ src.tag = "some" /\ extra = <<>>)
    => res = Ok(src.val)

C1_Witness ==
  /\ Decoded /\ ~vec /\ ty = "i128" /\ src.tag = "some" /\ extra = <<>>
  /\ src.val[8] = -32768 /\ src.val[1] = 300
  /\ res = Ok(src.val)

\* C2: for every element type and every vector vs of it,
\* Vec::from_bytes(vs.into_bytes()) returns vs (same length, same elements in
\* the same order); the empty vector encodes to no bytes and no bytes decode
\* to the empty vector.
C2_VectorRoundTrip ==
  /\ (Decoded /\ vec /\ src.tag = "some" /\ extra = <<>>)
       => /\ res.tag = "ok"
          /\ Len(res.val) = Len(src.val)
          /\ \A i \in 1..Len(src.val) : res.val[i] = src.val[i]
  /\ (Encoded /\ vec /\ src.val = <<>>) => wire = <<>>
  /\ (Decoded /\ vec /\ Input = <<>>) => res = Ok(<<>>)

C2_Witness ==
  /\ Decoded /\ vec /\ ty = "i16" /\ src = Some(<<1, -1>>) /\ extra = <<>>
  /\ wire = <<0, 1, 255, 255>>
  /\ res = Ok(<<1, -1>>)

\* C3: into_bytes of a numeric value of width W is W bytes, the byte at index
\* i being byte W-1-i of the value's bit pattern (most significant first);
\* 300u32 encodes to 00 00 01 2C and 'A' to 00 00 00 41.
C3_BigEndianFixedWidth ==
  /\ (Encoded /\ ~vec /\ ty \in NumericTypes)
       => /\ Len(wire) = size_of(ty)
          /\ \A i \in 0..(size_of(ty) - 1) :
               wire[i + 1] = BitByte(ty, src.val, size_of(ty) - 1 - i)
  /\ (Encoded /\ ~vec /\ ty = "u32" /\ src.val = <<300, 0>>)
       => wire = <<0, 0, 1, 44>>
  /\ (Encoded /\ ~vec /\ ty = "char")
       => wire = <<0, src.val \div 65536, (src.val \div 256) % 256, src.val % 256>>

C3_Witness ==
  /\ pc = "encoded" /\ ~vec /\ ty = "u32" /\ src = Some(<<300, 0>>)
  /\ wire = <<0, 0, 1, 44>>

\* C4: from_bytes of a fixed-width scalar type (numeric, char, bool) panics on
\* an input shorter than the type's width, the empty input included.
C4_TruncationFails ==
  (Decoded /\ ~vec /\ ty \in NumericTypes \cup {"char", "bool"}
     /\ Len(Input) < size_of(ty))
    => res = Panic

C4_Witness ==
  /\ Decoded /\ ~vec /\ ty = "u64" /\ Len(Input) = 7 /\ Input[1] = 1
  /\ res = Panic

\* C5: char::from_bytes of at least 4 bytes returns the char whose scalar
\* value the first 4 bytes spell (big-endian) exactly when that is a legal
\* scalar value, and panics otherwise; Vec<char>::from_bytes panics when any
\* of its u32 elements is no legal scalar value, and else returns them all.
C5_CharValidation ==
  /\ (Decoded /\ ~vec /\ ty = "char" /\ Len(Input) >= 4)
       => IF LegalScalarAt(Input, 1) THEN res = Ok(ScalarAt(Input, 1))
          ELSE res = Panic
  /\ (Decoded /\ vec /\ ty = "char")
       => LET n == Len(Input) \div 4
          IN  IF \A k \in 1..n : LegalScalarAt(Input, 4 * k - 3)
              THEN res = Ok([k \in 1..n |-> ScalarAt(Input, 4 * k - 3)])
              ELSE res = Panic

C5_Witness ==
  /\ Decoded /\ ~vec /\ ty = "char" /\ Input = <<0, 0, 216, 0>>
  /\ res = Panic

\* C6: String::into_bytes is the text's UTF-8 bytes, nothing before or after
\* them ("hi" gives 68 69); String::from_bytes returns the text whose UTF-8
\* form is the whole input when the input is well-formed UTF-8 and panics
\* when it is not; so from_bytes(into_bytes(s)) = s.
C6_TextCodec ==
  /\ (Encoded /\ ~vec /\ ty = "String")
       => /\ Len(wire) = SumUtf8Len(src.val)
          /\ WellFormedUtf8(wire)
          /\ (src.val = <<104, 105>> => wire = <<104, 105>>)
  /\ (Decoded /\ ~vec /\ ty = "String")
       => IF WellFormedUtf8(Input)
          THEN /\ res.tag = "ok"
               /\ String_into_bytes(res.val) = Input
               /\ Len(Input) = SumUtf8Len(res.val)
          ELSE res = Panic
  /\ (Decoded /\ ~vec /\ ty = "String" /\ src.tag = "some" /\ extra = <<>>)
       => res = Ok(src.val)

C6_Witness ==
  /\ Decoded /\ ~vec /\ ty = "String" /\ src = Some(<<104, 105>>)
  /\ wire = <<104, 105>> /\ extra = <<>>
  /\ res = Ok(<<104, 105>>)

\* C7 as stated: whenever vector or text decode returns, every byte of the
\* input belongs to the decoded result.
C7_ConsumesInputFully ==
  (Decoded /\ (vec \/ ty = "String") /\ res.tag = "ok")
    => Consumed = Len(Input)

\* C7 amended: text decode, when it returns, consumes its whole input; vector
\* decode, when it returns, consumes exactly the first floor(len / W) * W
\* bytes, which is the whole input when len is a multiple of W and leaves out
\* the trailing len mod W bytes otherwise.
C7_ConsumesWholeWindows ==
  /\ (Decoded /\ ~vec /\ ty = "String" /\ res.tag = "ok")
       => Consumed = Len(Input)
  /\ (Decoded /\ vec /\ res.tag = "ok")
       => /\ Consumed = Len(Input) - (Len(Input) % size_of(ty))
          /\ (Len(Input) % size_of(ty) = 0 => Consumed = Len(Input))
          /\ ty # "bool"
               => into_bytes(vec, ty, res.val) = SubSeq(Input, 1, Consumed)

C7_Witness ==
  /\ Decoded /\ vec /\ ty = "u16" /\ Len(Input) = 3
  /\ res.tag = "ok" /\ Len(res.val) = 1 /\ Consumed = 2

\* C8: from_bytes of a numeric type of width W, given at least W bytes,
\* returns the value whose big-endian form is the first W bytes and ignores
\* the rest, so from_bytes(into_bytes(v) ++ extra) = v; from_bytes of () maps
\* every input to ().
C8_ScalarReadsPrefix ==
  /\ (Decoded /\ ~vec /\ ty \in NumericTypes /\ Len(Input) >= size_of(ty))
       => /\ res.tag = "ok"
          /\ IsBigEndianOf(ty, res.val, Input, 1)
  /\ (Decoded /\ ~vec /\ ty \in NumericTypes /\ src.tag = "some")
       => res = Ok(src.val)
  /\ (Decoded /\ ~vec /\ ty = "()") => res = Ok("()")

C8_Witness ==
  /\ Decoded /\ ~vec /\ ty = "u32" /\ src = Some(<<300, 0>>)
  /\ extra = <<255, 255>>
  /\ res = Ok(<<300, 0>>)

\* C9: Vec<E>::from_bytes for a numeric E of width W never panics and returns
\* floor(len / W) elements, element i the big-endian decoding of the i-th
\* window of W bytes; a trailing partial window is dropped; for Vec<u8> the
\* result is the input.
C9_VectorWindows ==
  /\ (Decoded /\ vec /\ ty \in NumericTypes)
       => /\ res.tag = "ok"
          /\ Len(res.val) = Len(Input) \div size_of(ty)
          /\ \A k \in 1..Len(res.val) :
               IsBigEndianOf(ty, res.val[k], Input, (k - 1) * size_of(ty) + 1)
  /\ (Decoded /\ vec /\ ty = "u8") => res = Ok(Input)

C9_Witness ==
  /\ Decoded /\ vec /\ ty = "i32" /\ Input = <<255, 255, 128, 255, 255, 128>>
  /\ res = Ok(<< <<33023, -1>> >>)

\* C10: bool::into_bytes is the one byte 1 for true and 0 for false;
\* bool::from_bytes of a non-empty input returns whether the first byte is 1;
\* Vec<bool>::from_bytes returns one element per input byte, element i being
\* whether byte i is 1.
C10_BoolSentinel ==
  /\ (Encoded /\ ~vec /\ ty = "bool")
       => wire = (IF src.val THEN <<1>> ELSE <<0>>)
  /\ (Decoded /\ ~vec /\ ty = "bool" /\ Len(Input) >= 1)
       => /\ res.tag = "ok"
          /\ res.val <=> (Input[1] = 1)
  /\ (Decoded /\ vec /\ ty = "bool")
       => /\ res.tag = "ok"
          /\ Len(res.val) = Len(Input)
          /\ \A i \in 1..Len(Input) : res.val[i] <=> (Input[i] = 1)

C10_Witness ==
  /\ Decoded /\ ~vec /\ ty = "bool" /\ Input = <<2, 1>>
  /\ res = Ok(FALSE)

=============================================================================
